---- MODULE Spec2Model ----
(***************************************************************************)
(* N-of-M ranked retrieval: SimpleSearchEngine.evaluate                    *)
(* (src/in3120/simplesearchengine.py), as a state machine.                 *)
(*                                                                         *)
(* One run of evaluate is modelled: the set-up (lines 45-54), one action   *)
(* per iteration of the merge loop (lines 57-70), and the sifting and      *)
(* yielding of the results (lines 71-79).                                  *)
(*                                                                         *)
(* The inverted index, the corpus, the ranker and the sieve are            *)
(* collaborators whose code is not in src/: the index is a table of        *)
(* posting lists sorted by document id, the ranker returns a score of its  *)
(* own choice, the sieve keeps the best `size` pairs.                      *)
(***************************************************************************)
EXTENDS Integers, Sequences, FiniteSets

(***************************************************************************)
(* Bounds of the model.                                                    *)
(***************************************************************************)
\* document ids are 0..MaxDoc
MaxDoc == 1
\* a query holds at most MaxQueryLen term occurrences
MaxQueryLen == 3
\* match_threshold is a multiple of 1/RatioDen (exact in binary floating
\* point when RatioDen is a power of two)
RatioDen == 4
\* hit_count, when given, is in 0..MaxHit
MaxHit == 1

(***************************************************************************)
(* Program constants.                                                      *)
(***************************************************************************)
\* Sieve(max(1, min(100, ...)))
HitCap == 100
\* options.get("hit_count", 10)
DefaultHitCount == 10

Vocabulary == {"a", "b", "c"}
Docs == 0 .. MaxDoc
\* The scores the ranker returns: a low and a high one (the evaluator only
\* passes scores on; the sieve only compares them).
Scores == {0, 1}

Max(x, y) == IF x >= y THEN x ELSE y
Min(x, y) == IF x <= y THEN x ELSE y
Range(s) == {s[i] : i \in 1 .. Len(s)}
SetMin(S) == CHOOSE x \in S : \A y \in S : x <= y

RECURSIVE SortedSeq(_)
SortedSeq(S) ==
    IF S = {} THEN <<>>
    ELSE <<SetMin(S)>> \o SortedSeq(S \ {SetMin(S)})

RECURSIVE Concat(_)
Concat(ss) == IF ss = <<>> THEN <<>> ELSE Head(ss) \o Concat(Tail(ss))

(***************************************************************************)
(* Postings.  A Posting is (document_id, term_frequency); None is the      *)
(* value next(iterator, None) returns for an exhausted iterator.  Posting  *)
(* objects are truthy, None is falsy.                                      *)
(***************************************************************************)
None == [document_id |-> -1, term_frequency |-> 0]
Truthy(posting) == posting # None

\* The term frequency the index stores for a term in a document; the
\* evaluator never reads it, it only hands the posting to the ranker.
TermFrequency(term, d) == IF term = "b" THEN d + 1 ELSE 1

Posting(term, d) == [document_id |-> d, term_frequency |-> TermFrequency(term, d)]

\* InvertedIndex.get_postings_iterator(term): the postings of the term in
\* increasing document id order.
PostingList(idx, term) ==
    LET ds == SortedSeq(idx[term])
    IN  [i \in 1 .. Len(ds) |-> Posting(term, ds[i])]

\* next(iterator, None) for an iterator that has already produced `pos`
\* postings of `list`: the posting returned, and the iterator's new position.
NextPosting(list, pos) == IF pos < Len(list) THEN list[pos + 1] ELSE None
NextPos(list, pos) == IF pos < Len(list) THEN pos + 1 ELSE pos

(***************************************************************************)
(* Lines 45-49: the unique terms, their multiplicities, and N.            *)
(***************************************************************************)
\* Counter(...)[term]
Occurrences(q, term) == Cardinality({i \in 1 .. Len(q) : q[i] = term})

TermsCount(q) == [term \in Range(q) |-> Occurrences(q, term)]

\* list(Counter(q).keys()): the distinct terms in first-occurrence order.
RECURSIVE FirstOccurrences(_, _)
FirstOccurrences(q, seen) ==
    IF q = <<>> THEN <<>>
    ELSE IF Head(q) \in seen THEN FirstOccurrences(Tail(q), seen)
    ELSE <<Head(q)>> \o FirstOccurrences(Tail(q), seen \cup {Head(q)})

\* Faulty variant: the terms are not deduplicated (list(get_terms(query))).
AllOccurrences(q) == q

UniqueTerms(q) == FirstOccurrences(q, {})

\* int(x) for the fraction num/RatioDen: truncation towards zero.
PyInt(num) ==
    IF num >= 0 THEN num \div RatioDen ELSE -((-num) \div RatioDen)

\* Faulty variant: N is not clamped to 1..m.
ComputeNUnclamped(num, m) == PyInt(num * m)

\* Faulty variant: round(threshold * m) instead of int(threshold * m).
ComputeNRounded(num, m) == Max(1, Min(m, PyInt(num * m + RatioDen \div 2)))

\* n = max(1, min(m, int(threshold * m))), threshold = num/RatioDen
ComputeN(num, m) == Max(1, Min(m, PyInt(num * m)))

\* dict.get(key, default) on an option held as <<>> (absent) or <<value>>
OptGet(opt, default) == IF opt = <<>> THEN default ELSE opt[1]

\* options.get("hit_count", 10)
HitCountOf(opt) == OptGet(opt, DefaultHitCount)

\* Faulty variant: the capacity is not capped (max(1, hit_count)).
SieveSizeUncapped(hits) == Max(1, hits)

\* max(1, min(100, hit_count)), the capacity given to Sieve(...)
SieveSize(hits) == Max(1, Min(HitCap, hits))

(***************************************************************************)
(* Lines 57-70: one iteration of the merge loop.                           *)
(***************************************************************************)
\* Faulty variant: all(postings_map) instead of any(postings_map).
AllLive(pm) == \A i \in 1 .. Len(pm) : Truthy(pm[i])

\* while any(postings_map)
AnyLive(pm) == \E i \in 1 .. Len(pm) : Truthy(pm[i])

LiveDocIds(pm) == {pm[i].document_id : i \in {j \in 1 .. Len(pm) : Truthy(pm[j])}}

\* Faulty variant: max(...) instead of min(...).
MaxDocId(pm) == CHOOSE x \in LiveDocIds(pm) : \A y \in LiveDocIds(pm) : y <= x

\* min(posting.document_id for posting in postings_map if posting is not None)
MinDocId(pm) == SetMin(LiveDocIds(pm))

\* posting and posting.document_id == doc_id
Matches(posting, d) == Truthy(posting) /\ posting.document_id = d

\* sum(1 for posting in postings_map if posting and posting.document_id == doc_id)
DocMatchCount(pm, d) == Cardinality({i \in 1 .. Len(pm) : Matches(pm[i], d)})

\* Faulty variant: doc_match_count > n.
IsCandidateStrict(count, nn) == count > nn

\* if doc_match_count >= n
IsCandidate(count, nn) == count >= nn

\* Faulty variant: line 66 tests only `if posting`.
UpdateCallsAnyLive(ts, counts, pm, d) ==
    Concat([i \in 1 .. Len(ts) |->
              IF Truthy(pm[i])
              THEN << <<"update", ts[i], counts[ts[i]], pm[i]>> >>
              ELSE <<>>])

\* Faulty variant: the terms are visited last to first.
UpdateCallsReversed(ts, counts, pm, d) ==
    Concat([i \in 1 .. Len(ts) |->
              IF Matches(pm[Len(ts) + 1 - i], d)
              THEN << <<"update", ts[Len(ts) + 1 - i],
                        counts[ts[Len(ts) + 1 - i]], pm[Len(ts) + 1 - i]>> >>
              ELSE <<>>])

\* The calls ranker.update(term, terms_count[term], posting) of lines 64-67.
UpdateCalls(ts, counts, pm, d) ==
    Concat([i \in 1 .. Len(ts) |->
              IF Matches(pm[i], d)
              THEN << <<"update", ts[i], counts[ts[i]], pm[i]>> >>
              ELSE <<>>])

\* Lines 63-68 for a candidate: reset, the updates, evaluate (which
\* returned `score`).
RankerCycle(ts, counts, pm, d, score) ==
    << <<"reset", d>> >> \o UpdateCalls(ts, counts, pm, d) \o << <<"evaluate", score>> >>

\* Faulty variant: every live cursor is advanced (`if posting`).
AdvancesAnyLive(posting, d) == Truthy(posting)

\* Line 70: whether the cursor of a term is advanced,
Advances(posting, d) == Matches(posting, d)

\* Faulty variant: a fresh iterator is asked for the next posting
\* (next(get_postings_iterator(term), None)).
AdvanceCursorFresh(list, pos) == NextPosting(list, 0)

\* Faulty variant: the iterator hands out the posting it handed out last.
AdvanceCursorStuck(list, pos) == list[pos]

\* and the posting it is advanced to: next(postings_iterators[term_index], None).
AdvanceCursor(list, pos) == NextPosting(list, pos)

\* Faulty variant: the loop skips the last result (results[:-1]).
SiftInputButLast(rs) == SubSeq(rs, 1, Len(rs) - 1)

\* Line 74: the results handed to the sieve, in order.
SiftInput(rs) == rs

(***************************************************************************)
(* The sieve (not in src/): a container of fixed capacity that keeps the   *)
(* highest scoring (score, item) pairs; ties are broken either way.        *)
(***************************************************************************)
RemoveAt(s, i) == SubSeq(s, 1, i - 1) \o SubSeq(s, i + 1, Len(s))

MinScore(heap) == SetMin({heap[i][1] : i \in 1 .. Len(heap)})

\* The contents sift(score, item) may leave.
SieveSift(heap, size, score, item) ==
    IF Len(heap) < size THEN {Append(heap, <<score, item>>)}
    ELSE IF score < MinScore(heap) THEN {heap}
    ELSE {Append(RemoveAt(heap, i), <<score, item>>) :
             i \in {j \in 1 .. Len(heap) : heap[j][1] = MinScore(heap)}}
         \cup (IF score = MinScore(heap) THEN {heap} ELSE {})

\* The contents a sieve may hold after sifting the pairs of rs in order.
RECURSIVE SiftAll(_, _, _)
SiftAll(heaps, size, rs) ==
    IF rs = <<>> THEN heaps
    ELSE SiftAll(UNION {SieveSift(h, size, Head(rs)[1], Head(rs)[2]) : h \in heaps},
                 size, Tail(rs))

SieveBest(heap) ==
    {i \in 1 .. Len(heap) : \A j \in 1 .. Len(heap) : heap[j][1] <= heap[i][1]}

\* The sequences winners() may produce: the contents, best score first.
RECURSIVE SieveWinners(_)
SieveWinners(heap) ==
    IF heap = <<>> THEN {<<>>}
    ELSE UNION {{<<heap[i]>> \o w : w \in SieveWinners(RemoveAt(heap, i))} :
                   i \in SieveBest(heap)}

\* Corpus.get_document(doc_id)
GetDocument(d) == [document_id |-> d]

\* Line 79: the dictionary yielded for a winner.
Result(score, d) == [document |-> GetDocument(d), score |-> score]

(***************************************************************************)
(* State.                                                                  *)
(***************************************************************************)
VARIABLES
    pc,                 \* where evaluate is
    index,              \* the inverted index: term -> set of document ids
    query,              \* get_terms(query): the term occurrences of the query
    threshold,          \* options.get("match_threshold") as read on line 47:
                        \* <<>> (None) or <<numerator over RatioDen>>
    hit_count,          \* options.get("hit_count", 10) as read on line 71
    terms_count,        \* Counter of the query's terms
    terms,              \* the unique terms, first occurrence first
    n,                  \* the threshold N
    iterators,          \* per unique term, how many postings its iterator has produced
    postings_map,       \* per unique term, the posting at its cursor, or None
    results,            \* the list of (score, doc_id)
    sieve_size,         \* the capacity of the sieve
    sieve,              \* the contents of the sieve after the last sift
    yielded,            \* the results yielded to the caller
    calls,              \* history: the calls made on the ranker
    pulled,             \* history: per unique term, the postings pulled from its iterator
    doc_ids             \* history: the doc_id of each merge-loop iteration

\* The state of the other classes of the package (the sections below).
VARIABLES
    ranker,             \* a BetterRanker: its _score and _document_id
    call,               \* the call last made on the ranker
    outcome,            \* what that call returned or raised
    was_reset,          \* whether reset has been called on the ranker
    runs                \* the result sequences of the runs of evaluate so far

rankerVars == <<ranker, call, outcome, was_reset, runs>>

\* No BetterRanker has been made.
RankerIdle ==
    /\ ranker = <<>>
    /\ call = <<>>
    /\ outcome = <<>>
    /\ was_reset = FALSE
    /\ runs = <<>>

VARIABLES
    vector,             \* a SparseDocumentVector: its _values and _length
    vector_call         \* the call last made on the vector, with what it returned

vectorVars == <<vector, vector_call>>

\* No SparseDocumentVector has been made.
VectorIdle == vector = <<>> /\ vector_call = <<>>

VARIABLES
    finder,             \* a run of StringFinder.scan: the trie, the tokens of
                        \* the buffer, the token the loop is at, live_states
    matches             \* the matches scan has yielded

finderVars == <<finder, matches>>

\* scan has not been called.
FinderIdle == finder = <<>> /\ matches = <<>>

VARIABLES
    classifier,         \* a NaiveBayesClassifier: the training set it was made
                        \* from, its vocabulary, priors, conditionals, denominators
    classified          \* the buffer last classified and the results yielded

bayesVars == <<classifier, classified>>

\* No NaiveBayesClassifier has been made.
BayesIdle == classifier = <<>> /\ classified = <<>>

otherVars == <<rankerVars, vectorVars, finderVars, bayesVars>>
OthersIdle == RankerIdle /\ VectorIdle /\ FinderIdle /\ BayesIdle

\* what a section leaves alone besides the evaluator's variables
besidesRanker == <<vectorVars, finderVars, bayesVars>>
BesidesRankerIdle == VectorIdle /\ FinderIdle /\ BayesIdle
besidesVector == <<rankerVars, finderVars, bayesVars>>
BesidesVectorIdle == RankerIdle /\ FinderIdle /\ BayesIdle
besidesFinder == <<rankerVars, vectorVars, bayesVars>>
BesidesFinderIdle == RankerIdle /\ VectorIdle /\ BayesIdle
besidesBayes == <<rankerVars, vectorVars, finderVars>>
BesidesBayesIdle == RankerIdle /\ VectorIdle /\ FinderIdle

vars == <<pc, index, query, threshold, hit_count, terms_count, terms, n, iterators,
          postings_map, results, sieve_size, sieve, yielded, calls,
          pulled, doc_ids, otherVars>>

(***************************************************************************)
(* Inputs.                                                                 *)
(***************************************************************************)
\* The evaluator only tests terms for identity, so queries are taken up to
\* a renaming of their terms: the distinct terms of a query are, in
\* first-occurrence order, the first terms of TermOrder (which is not the
\* alphabetical order).
TermOrder == <<"b", "a", "c">>

IsPrefix(s, t) == Len(s) <= Len(t) /\ \A i \in 1 .. Len(s) : s[i] = t[i]

Queries ==
    {q \in UNION {[1 .. k -> Vocabulary] : k \in 0 .. MaxQueryLen} :
        IsPrefix(FirstOccurrences(q, {}), TermOrder)}

\* The options are read where the code reads them.  match_threshold is a
\* numerator over RatioDen; <<>> is an absent key.
Thresholds ==
    {<<>>} \cup {<<num>> : num \in (-1 .. RatioDen) \cup {2 * RatioDen}}

\* hit_count is absent, negative, small, or above the cap of line 71.
HitCounts == {<<>>} \cup {<<h>> : h \in (-1 .. MaxHit) \cup {HitCap + 1}}

\* Terms that do not occur in the query have no postings: the evaluator
\* never asks the index for them.
Indexes(q) ==
    {idx \in [Vocabulary -> SUBSET Docs] :
        \A term \in Vocabulary \ Range(q) : idx[term] = {}}

Init ==
    /\ pc = "start"
    /\ query \in Queries
    /\ index \in Indexes(query)
    /\ threshold = <<>>
    /\ hit_count = 0
    /\ terms_count = <<>>
    /\ terms = <<>>
    /\ n = 0
    /\ iterators = <<>>
    /\ postings_map = <<>>
    /\ results = <<>>
    /\ sieve_size = 0
    /\ sieve = <<>>
    /\ yielded = <<>>
    /\ calls = <<>>
    /\ pulled = <<>>
    /\ doc_ids = <<>>
    /\ OthersIdle

(***************************************************************************)
(* Lines 45-54.  options.get("match_threshold") is None when the key is    *)
(* absent, and None * m raises TypeError.                                  *)
(***************************************************************************)
Start ==
    /\ pc = "start"
    /\ \E th \in Thresholds \ {<<>>} :
         /\ threshold' = th
         /\ n' = ComputeN(th[1], Len(UniqueTerms(query)))
    /\ LET ts == UniqueTerms(query)
           lists == [i \in 1 .. Len(ts) |-> PostingList(index, ts[i])]
       IN  /\ terms_count' = TermsCount(query)
           /\ terms' = ts
           /\ postings_map' = [i \in 1 .. Len(ts) |-> NextPosting(lists[i], 0)]
           /\ iterators' = [i \in 1 .. Len(ts) |-> NextPos(lists[i], 0)]
           /\ pulled' = [i \in 1 .. Len(ts) |->
                           IF Truthy(NextPosting(lists[i], 0))
                           THEN <<NextPosting(lists[i], 0)>> ELSE <<>>]
    /\ results' = <<>>
    /\ pc' = "merge"
    /\ UNCHANGED <<index, query, hit_count, sieve_size, sieve, yielded,
                   calls, doc_ids>>
    /\ UNCHANGED otherVars

StartFails ==
    /\ pc = "start"
    /\ <<>> \in Thresholds
    /\ threshold' = <<>>
    /\ terms_count' = TermsCount(query)
    /\ terms' = UniqueTerms(query)
    /\ pc' = "error"
    /\ UNCHANGED <<index, query, hit_count, n, iterators, postings_map,
                   results, sieve_size, sieve, yielded, calls, pulled, doc_ids>>
    /\ UNCHANGED otherVars

(***************************************************************************)
(* Lines 57-70: one iteration; the ranker's evaluate returns `score`.      *)
(***************************************************************************)
MergeStep ==
    /\ pc = "merge"
    /\ AnyLive(postings_map)
    /\ IF LiveDocIds(postings_map) = {}
       THEN \* min() of an empty sequence raises ValueError
            /\ pc' = "error"
            /\ UNCHANGED <<postings_map, iterators, pulled, doc_ids, calls, results>>
       ELSE
        LET doc_id == MinDocId(postings_map)
            doc_match_count == DocMatchCount(postings_map, doc_id)
            lists == [i \in 1 .. Len(terms) |-> PostingList(index, terms[i])]
            adv == {i \in 1 .. Len(terms) : Advances(postings_map[i], doc_id)}
        IN  /\ IF IsCandidate(doc_match_count, n)
               THEN \E score \in Scores :
                      /\ calls' = calls \o RankerCycle(terms, terms_count,
                                                       postings_map, doc_id, score)
                      /\ results' = Append(results, <<score, doc_id>>)
               ELSE UNCHANGED <<calls, results>>
            /\ postings_map' = [i \in 1 .. Len(terms) |->
                                  IF i \in adv
                                  THEN AdvanceCursor(lists[i], iterators[i])
                                  ELSE postings_map[i]]
            /\ iterators' = [i \in 1 .. Len(terms) |->
                               IF i \in adv
                               THEN NextPos(lists[i], iterators[i])
                               ELSE iterators[i]]
            /\ pulled' = [i \in 1 .. Len(terms) |->
                            IF i \in adv /\ Truthy(AdvanceCursor(lists[i], iterators[i]))
                            THEN Append(pulled[i], AdvanceCursor(lists[i], iterators[i]))
                            ELSE pulled[i]]
            /\ doc_ids' = Append(doc_ids, doc_id)
            /\ pc' = pc
    /\ UNCHANGED <<index, query, threshold, hit_count, terms_count, terms,
                   n, sieve_size, sieve, yielded>>
    /\ UNCHANGED otherVars

(***************************************************************************)
(* Lines 71-79: the loop has ended; the sieve is built, every result is    *)
(* sifted into it, and the winners are yielded, best first, each with its  *)
(* document.                                                               *)
(***************************************************************************)
YieldWinners ==
    /\ pc = "merge"
    /\ ~AnyLive(postings_map)
    /\ \E opt \in HitCounts :
         /\ hit_count' = HitCountOf(opt)
         /\ sieve_size' = SieveSize(HitCountOf(opt))
         /\ \E heap \in SiftAll({<<>>}, SieveSize(HitCountOf(opt)),
                                  SiftInput(results)) :
              /\ sieve' = heap
              /\ \E w \in SieveWinners(heap) :
                   yielded' = [i \in 1 .. Len(w) |-> Result(w[i][1], w[i][2])]
    /\ pc' = "done"
    /\ UNCHANGED <<index, query, threshold, terms_count, terms, n, iterators,
                   postings_map, results, calls, pulled, doc_ids>>
    /\ UNCHANGED otherVars

Next ==
    \/ Start
    \/ StartFails
    \/ MergeStep
    \/ YieldWinners

Spec == Init /\ [][Next]_vars

\* The body of evaluate is sequential code with no yield inside the merge
\* loop: once the generator is started, the loop keeps taking iterations
\* for as long as its condition holds.
LiveSpec == Spec /\ WF_vars(MergeStep)

(***************************************************************************)
(* What the claims speak of.                                               *)
(***************************************************************************)
Running == pc \in {"merge", "done"}

\* every cursor is exhausted
AllExhausted == \A i \in 1 .. Len(postings_map) : postings_map[i] = None

\* the loop has ended
LoopEnded == pc = "done" \/ (pc = "merge" /\ AllExhausted)

\* M, the number of distinct terms of the query
DistinctTerms == Range(query)
M == Cardinality(DistinctTerms)

\* in how many of the posting lists of the query's terms document d appears
ListsHolding(d) == Cardinality({term \in DistinctTerms : d \in index[term]})

InAtLeast(k) == {d \in Docs : ListsHolding(d) >= k}
UnionOfLists == UNION {index[term] : term \in DistinctTerms}
IntersectionOfLists == {d \in Docs : \A term \in DistinctTerms : d \in index[term]}

CallsOf(op) == {i \in 1 .. Len(calls) : calls[i][1] = op}

\* the documents ranker.reset was called on
ScoredDocs == {calls[i][2] : i \in CallsOf("reset")}

\* the reset that opens the cycle call i belongs to
RECURSIVE CycleStart(_)
CycleStart(i) ==
    IF i = 0 \/ calls[i][1] = "reset" THEN i ELSE CycleStart(i - 1)

ThresholdValid == threshold # <<>> /\ threshold[1] >= 1 /\ threshold[1] <= RatioDen
ThresholdOutOfRange ==
    threshold # <<>> /\ (threshold[1] <= 0 \/ threshold[1] > RatioDen)

(***************************************************************************)
(* C1: when the merge loop has ended, the documents scored (ranker.reset   *)
(* was called on them) are exactly the documents that appear in at least N *)
(* of the M posting lists, for M >= 1; with N = 1 that is the union of the *)
(* lists and with N = M their intersection.                                *)
(***************************************************************************)
C1_CandidatesAreNofM ==
    (LoopEnded /\ M >= 1) =>
        /\ n \in 1 .. M
        /\ ScoredDocs = InAtLeast(n)
        /\ (n = 1 => ScoredDocs = UnionOfLists)
        /\ (n = M => ScoredDocs = IntersectionOfLists)

\* a 2-of-3 run whose candidates are neither the union nor the intersection
C1_Witness ==
    /\ pc = "done"
    /\ M = 3
    /\ n = 2
    /\ ScoredDocs # {}
    /\ ScoredDocs # UnionOfLists
    /\ ScoredDocs # IntersectionOfLists

(***************************************************************************)
(* C2: the calls made on the ranker are a concatenation of cycles, one per *)
(* candidate: one reset(d), then only updates whose posting has document   *)
(* id d, then one evaluate(); no update or evaluate lies outside a cycle   *)
(* and no document gets two cycles.                                        *)
(***************************************************************************)
C2_RankerCycles ==
    LET resets == CallsOf("reset")
        updates == CallsOf("update")
        evaluates == CallsOf("evaluate")
    IN  /\ calls # <<>> =>
             calls[1][1] = "reset" /\ calls[Len(calls)][1] = "evaluate"
        /\ \A i \in resets : i = 1 \/ calls[i - 1][1] = "evaluate"
        /\ \A i \in updates :
             /\ i > 1
             /\ calls[i - 1][1] \in {"reset", "update"}
             /\ CycleStart(i) >= 1
             /\ calls[i][4].document_id = calls[CycleStart(i)][2]
        /\ \A i \in evaluates :
             i > 1 /\ calls[i - 1][1] \in {"reset", "update"}
        /\ \A i, j \in resets : calls[i][2] = calls[j][2] => i = j
        /\ Cardinality(resets) = Len(results)
        /\ Cardinality(evaluates) = Len(results)
        /\ resets \cup updates \cup evaluates = 1 .. Len(calls)

\* two cycles, one of them with two updates, while another cursor is live
\* on a different document
C2_Witness ==
    /\ pc = "done"
    /\ Cardinality(CallsOf("reset")) = 2
    /\ \E i \in CallsOf("update") : calls[i - 1][1] = "update"
    /\ \E i \in CallsOf("reset") : calls[i + 1][1] = "update" /\ calls[i + 2][1] = "evaluate"

(***************************************************************************)
(* C3 (as claimed): every scored record is handed to the selector as soon  *)
(* as it is produced, so the evaluator never holds more scored candidates  *)
(* than the selector's capacity K.                                         *)
(***************************************************************************)
C3_HoldsAtMostK ==
    pc = "done" => Len(results) <= sieve_size

(***************************************************************************)
(* C4 (as claimed): with match_threshold outside (0,1] or hit_count <= 0   *)
(* the evaluator makes no ranker call, advances no cursor and yields no    *)
(* result.                                                                 *)
(***************************************************************************)
C4_RejectsInvalidOptions ==
    ((pc # "start" /\ ThresholdOutOfRange) \/ (pc = "done" /\ hit_count <= 0)) =>
        /\ calls = <<>>
        /\ \A i \in 1 .. Len(pulled) : pulled[i] = <<>>
        /\ yielded = <<>>

(***************************************************************************)
(* C4 (amended): a match_threshold outside (0,1] and a hit_count <= 0 are  *)
(* clamped, not rejected: N is 1 for a ratio <= 0 and M (1 when M = 0) for *)
(* a ratio > 1, the sieve is built with capacity 1 for hit_count <= 0, and *)
(* the merge runs as for valid options: every cursor is primed and run to  *)
(* exhaustion and exactly the documents in at least N lists are scored.    *)
(***************************************************************************)
C4_ClampsInvalidOptions ==
    /\ (Running /\ ThresholdOutOfRange) =>
         /\ threshold[1] <= 0 => n = 1
         /\ threshold[1] > RatioDen => n = Max(1, M)
         /\ LoopEnded =>
              /\ ScoredDocs = InAtLeast(n)
              /\ \A i \in 1 .. Len(pulled) :
                   Len(pulled[i]) = Cardinality(index[terms[i]])
    /\ (pc = "done" /\ hit_count <= 0) =>
         /\ sieve_size = 1
         /\ ScoredDocs = InAtLeast(n)
         /\ Len(results) = Cardinality(InAtLeast(n))

\* both options invalid, and yet cursors advanced, the ranker was called
\* and a result was yielded
C4_Witness ==
    /\ pc = "done"
    /\ ThresholdOutOfRange
    /\ threshold[1] > RatioDen
    /\ M >= 2
    /\ hit_count <= 0
    /\ Len(calls) > 3
    /\ Len(yielded) = 1
    /\ Len(doc_ids) >= 2

YieldedRecord(i) == <<yielded[i].score, yielded[i].document.document_id>>
YieldedRecords == {YieldedRecord(i) : i \in 1 .. Len(yielded)}

C6_TopK ==
    pc = "done" =>
        /\ Len(yielded) = Min(sieve_size, Len(results))
        /\ \A i, j \in 1 .. Len(yielded) :
             i < j => yielded[i].score >= yielded[j].score
        /\ \A i \in 1 .. Len(yielded) :
             /\ YieldedRecord(i) \in Range(results)
             /\ yielded[i].document = GetDocument(yielded[i].document.document_id)
        /\ \A i, j \in 1 .. Len(yielded) :
             i # j => yielded[i].document # yielded[j].document
        /\ \A r \in Range(results) \ YieldedRecords :
             \A i \in 1 .. Len(yielded) : r[1] <= yielded[i].score

\* K = 1 and two candidates, the better one scored last
C6_Witness ==
    /\ pc = "done"
    /\ sieve_size = 1
    /\ Len(results) = 2
    /\ results[1][1] < results[2][1]
    /\ yielded = <<Result(results[2][1], results[2][2])>>

(***************************************************************************)
(* C7: for a query without terms (M = 0) and valid options the evaluator   *)
(* does not fail, runs no merge-loop iteration, makes no ranker call and   *)
(* yields nothing.                                                         *)
(***************************************************************************)
C7_EmptyQuery ==
    (M = 0 /\ pc # "start" /\ ThresholdValid /\ (pc = "done" => hit_count >= 1)) =>
        /\ pc \in {"merge", "done"}
        /\ pc = "merge" => AllExhausted
        /\ doc_ids = <<>>
        /\ calls = <<>>
        /\ results = <<>>
        /\ yielded = <<>>

\* the run for an empty query has ended
C7_Witness ==
    /\ pc = "done"
    /\ query = <<>>
    /\ ThresholdValid
    /\ hit_count >= 1
    /\ yielded = <<>>

(***************************************************************************)
(* C8: for every term, the postings pulled from its iterator have strictly *)
(* increasing document ids (so the document id at its cursor never         *)
(* decreases and no posting is pulled twice), the cursor holds the last    *)
(* posting pulled or None, and no more postings are pulled than the list   *)
(* holds.                                                                  *)
(***************************************************************************)
C8_CursorsOnlyAdvance ==
    Running =>
        \A i \in 1 .. Len(pulled) :
            /\ \A j, k \in 1 .. Len(pulled[i]) :
                 j < k => pulled[i][j].document_id < pulled[i][k].document_id
            /\ Len(pulled[i]) <= Cardinality(index[terms[i]])
            /\ Truthy(postings_map[i]) => postings_map[i] = pulled[i][Len(pulled[i])]
            /\ \A j \in 1 .. Len(pulled[i]) :
                 pulled[i][j].document_id \in index[terms[i]]

\* a cursor that was advanced from one posting to the next and then
\* exhausted, while another term's cursor moved at a different pace
C8_Witness ==
    /\ pc = "done"
    /\ \E i, j \in 1 .. Len(pulled) :
         /\ Len(pulled[i]) = 2
         /\ Len(pulled[j]) = 1
         /\ pulled[j][1].document_id > pulled[i][1].document_id

(***************************************************************************)
(* C9: the document id chosen as the current minimum strictly increases    *)
(* from one iteration to the next, so documents are scored in strictly     *)
(* increasing document id order, none twice, none after a larger one.      *)
(***************************************************************************)
C9_DocIdsIncrease ==
    /\ \A i, j \in 1 .. Len(doc_ids) : i < j => doc_ids[i] < doc_ids[j]
    /\ \A i, j \in CallsOf("reset") : i < j => calls[i][2] < calls[j][2]
    /\ \A i, j \in 1 .. Len(results) : i < j => results[i][2] < results[j][2]
    /\ ScoredDocs \subseteq Range(doc_ids)

\* two iterations, the first of which did not score its document
C9_Witness ==
    /\ pc = "done"
    /\ Len(doc_ids) = 2
    /\ Len(results) = 1
    /\ results[1][2] = doc_ids[2]

(***************************************************************************)
(* C10: a repeated query term changes neither M nor the match count: the   *)
(* evaluator works on as many cursors as the query has distinct terms, the *)
(* candidates are the documents holding at least N of the distinct terms,  *)
(* with N computed from the number of distinct terms, and the multiplicity *)
(* passed to ranker.update is the number of occurrences of the term in the *)
(* query.                                                                  *)
(***************************************************************************)
C10_MultiplicityOnlyWeighs ==
    Running =>
        /\ Len(terms) = M
        /\ Range(terms) = DistinctTerms
        /\ Len(postings_map) = M
        /\ n = ComputeN(threshold[1], M)
        /\ LoopEnded =>
             ScoredDocs =
                 {d \in Docs :
                     Cardinality({term \in DistinctTerms : d \in index[term]})
                         >= ComputeN(threshold[1], Cardinality(DistinctTerms))}
        /\ \A i \in CallsOf("update") :
             calls[i][3] = Occurrences(query, calls[i][2])

\* the occurrences of the query's terms that document d holds
OccurrencesHolding(d) ==
    Cardinality({i \in 1 .. Len(query) : d \in index[query[i]]})

\* a term occurs twice, and a document that holds N term occurrences but
\* fewer than N distinct terms is not a candidate
C10_Witness ==
    /\ pc = "done"
    /\ Len(query) > M
    /\ \E i \in CallsOf("update") : calls[i][3] = 2
    /\ \E d \in Docs : OccurrencesHolding(d) >= n /\ d \notin ScoredDocs

(***************************************************************************)
(* More of what the claims speak of: the step an iteration of the merge    *)
(* loop takes, seen from outside.                                          *)
(***************************************************************************)
\* an iteration of the merge loop has just run
Iterated == Len(doc_ids') = Len(doc_ids) + 1

\* the document the iteration worked on
Current == doc_ids'[Len(doc_ids')]

\* the ranker calls the iteration made
NewCalls == SubSeq(calls', Len(calls) + 1, Len(calls'))

\* the index in the query of the first occurrence of a term
FirstIndex(term) ==
    CHOOSE i \in 1 .. Len(query) :
        query[i] = term /\ \A j \in 1 .. i - 1 : query[j] # term

\* the cursor of a term, before the iteration
CursorOf(term) ==
    postings_map[CHOOSE i \in 1 .. Len(terms) : terms[i] = term]

\* the terms whose cursor is positioned at document d, before the iteration
TermsAt(d) ==
    {term \in DistinctTerms :
        CursorOf(term) # None /\ CursorOf(term).document_id = d}

(***************************************************************************)
(* C11: in the cycle of a candidate d, the updates are one per unique term *)
(* whose cursor is at d and none for another term, in first-occurrence     *)
(* order of the terms in the query; each passes the term, the number of    *)
(* its occurrences in the query and the posting at the term's cursor.  So  *)
(* the number of updates is the match count of d, which is at least N.     *)
(***************************************************************************)
C11_UpdatesPerCycle ==
    [][(Iterated /\ NewCalls # <<>>) =>
        LET d == Current
            ups == SubSeq(NewCalls, 2, Len(NewCalls) - 1)
        IN  /\ NewCalls[1] = <<"reset", d>>
            /\ NewCalls[Len(NewCalls)][1] = "evaluate"
            /\ \A k \in 1 .. Len(ups) :
                 /\ ups[k][1] = "update"
                 /\ ups[k][2] \in TermsAt(d)
                 /\ ups[k][3] = Cardinality({i \in 1 .. Len(query) :
                                               query[i] = ups[k][2]})
                 /\ ups[k][4] = CursorOf(ups[k][2])
            /\ \A term \in TermsAt(d) :
                 Cardinality({k \in 1 .. Len(ups) : ups[k][2] = term}) = 1
            /\ \A j, k \in 1 .. Len(ups) :
                 j < k => FirstIndex(ups[j][2]) < FirstIndex(ups[k][2])
            /\ Len(ups) = Cardinality(TermsAt(d))
            /\ Len(ups) >= n
    ]_vars

\* a cycle with an update for "b" and then one for "a" (the order of their
\* first occurrences, not the alphabetical one), while the third term of
\* the query does not hold the document
C11_Witness ==
    /\ M = 3
    /\ \E i \in CallsOf("update") :
         /\ calls[i - 1][1] = "reset"
         /\ calls[i][2] = "b"
         /\ i + 2 <= Len(calls)
         /\ calls[i + 1][1] = "update"
         /\ calls[i + 1][2] = "a"
         /\ calls[i + 2][1] = "evaluate"
         /\ calls[i - 1][2] \notin index["c"]

(***************************************************************************)
(* C12: the capacity K of the sieve is max(1, min(100, hit_count)), with   *)
(* hit_count 10 when the option is absent; so whatever integer hit_count   *)
(* is, K is in 1..100, and at most K results, hence at most 100, are       *)
(* yielded.                                                                *)
(***************************************************************************)
C12_CapacityAndYield ==
    pc = "done" =>
        /\ sieve_size = (IF hit_count < 1 THEN 1
                         ELSE IF hit_count > 100 THEN 100 ELSE hit_count)
        /\ (hit_count = 10 \/ <<hit_count>> \in HitCounts)
        /\ sieve_size \in 1 .. 100
        /\ Len(sieve) <= sieve_size
        /\ Len(yielded) <= sieve_size
        /\ Len(yielded) <= 100
        /\ Len(yielded) <= Len(results)

\* a hit_count above the cap, brought down to it, with a result yielded
C12_Witness ==
    /\ pc = "done"
    /\ hit_count > 100
    /\ sieve_size = 100
    /\ yielded # <<>>

\* the posting that follows document d in the posting list of a term, None
\* when d is the last document of the list
Following(term, d) ==
    LET later == {e \in index[term] : e > d}
    IN  IF later = {} THEN None
        ELSE [document_id |-> CHOOSE e \in later : \A f \in later : e <= f,
              term_frequency |->
                  TermFrequency(term, CHOOSE e \in later : \A f \in later : e <= f)]

\* the least document id under a live cursor, before the iteration
LeastLive ==
    CHOOSE d \in Docs :
        /\ \E i \in 1 .. Len(postings_map) : postings_map[i].document_id = d
        /\ \A i \in 1 .. Len(postings_map) :
             postings_map[i] = None \/ postings_map[i].document_id >= d

(***************************************************************************)
(* C17: an iteration of the merge loop advances exactly the cursors whose  *)
(* posting is on the current minimum, each by one posting (to None at the  *)
(* end of its list), whether or not the document was scored; every other   *)
(* cursor, the exhausted ones included, keeps its posting, and its         *)
(* iterator is not pulled.                                                 *)
(***************************************************************************)
C17_OnlyMatchingCursorsAdvance ==
    [][Iterated =>
        /\ Current = LeastLive
        /\ Len(postings_map') = Len(postings_map)
        /\ \A i \in 1 .. Len(postings_map) :
             IF postings_map[i] # None /\ postings_map[i].document_id = Current
             THEN /\ postings_map'[i] = Following(terms[i], Current)
                  /\ pulled'[i] =
                        IF Following(terms[i], Current) = None THEN pulled[i]
                        ELSE Append(pulled[i], Following(terms[i], Current))
                  /\ iterators'[i] = Len(pulled'[i])
             ELSE /\ postings_map'[i] = postings_map[i]
                  /\ pulled'[i] = pulled[i]
                  /\ iterators'[i] = iterators[i]
    ]_vars

\* an iteration that scored nothing has moved one cursor to its second
\* posting, another cursor is still on its first posting, and a third one
\* was exhausted from the start
C17_Witness ==
    /\ pc = "merge"
    /\ Len(doc_ids) = 1
    /\ calls = <<>>
    /\ \E i, j, k \in 1 .. Len(postings_map) :
         /\ Len(pulled[i]) = 2
         /\ postings_map[i] # None
         /\ Len(pulled[j]) = 1
         /\ postings_map[j] # None
         /\ pulled[k] = <<>>
         /\ postings_map[k] = None

\* the number of postings in the lists of the query's terms
RECURSIVE SumOver(_, _)
SumOver(f, S) ==
    IF S = {} THEN 0
    ELSE LET x == CHOOSE y \in S : TRUE
         IN  f[x] + SumOver(f, S \ {x})

TotalPostings ==
    SumOver([term \in DistinctTerms |-> Cardinality(index[term])], DistinctTerms)

\* the documents whose posting a cursor has been on, in order
VisitedDocs(i) == [k \in 1 .. Len(pulled[i]) |-> pulled[i][k].document_id]

(***************************************************************************)
(* C18: with finite posting lists the merge loop terminates.  Every        *)
(* iteration starts with a live cursor and advances at least one; there    *)
(* are at most as many iterations as postings in total; the loop is left   *)
(* exactly when every cursor is exhausted, and then every posting of every *)
(* list has been visited exactly once.                                     *)
(***************************************************************************)
C18_MergeTerminates ==
    /\ [](Running => Len(doc_ids) <= TotalPostings)
    /\ [](pc = "done" => AllExhausted)
    /\ [](LoopEnded =>
            \A i \in 1 .. Len(terms) :
                /\ Len(pulled[i]) = Cardinality(index[terms[i]])
                /\ Range(VisitedDocs(i)) = index[terms[i]]
                /\ postings_map[i] = None)
    /\ [][Iterated =>
            /\ ~AllExhausted
            /\ \E i \in 1 .. Len(postings_map) :
                 /\ postings_map[i] # None
                 /\ postings_map'[i] # postings_map[i]]_vars
    /\ [][(pc = "merge" /\ pc' = "done") => AllExhausted]_vars
    /\ (pc = "merge") ~> LoopEnded

\* the loop has ended after as many iterations as there are postings, two
\* at least, in the lists of two terms
C18_Witness ==
    /\ pc = "done"
    /\ M >= 2
    /\ TotalPostings >= 2
    /\ Len(doc_ids) = TotalPostings
    /\ \A i \in 1 .. Len(terms) : pulled[i] # <<>>

(***************************************************************************)
(* BetterRanker (src/in3120/betterranker.py): TF-IDF scoring with a static *)
(* document score.  Scores are in thousandths.                             *)
(***************************************************************************)
\* the ranker alone is driven while a score is at most MaxRankerScore
MaxRankerScore == 1500

\* _static_score_weight = 1.0
StaticScoreWeight == 1
\* _static_score_default_value = 0.0
StaticScoreDefault == 0

\* self._document_id = None
NoDocumentId == -1

\* math.log(k), in thousandths, for the small k the model meets
Ln(k) ==
    CASE k = 1 -> 0
      [] k = 2 -> 693
      [] k = 3 -> 1099
      [] k = 4 -> 1386
      [] k = 5 -> 1609
      [] k = 6 -> 1792
      [] k = 7 -> 1946
      [] k = 8 -> 2079
      [] k = 9 -> 2197
      [] k = 10 -> 2303
      [] k = 11 -> 2398
      [] k = 12 -> 2485

\* len(self._corpus)
TotalDocuments == Cardinality(Docs)

\* self._inverted_index.get_document_frequency(term)
DocumentFrequency(idx, term) == Cardinality(idx[term])

\* math.log(total_documents / document_frequency), for a frequency > 0
Idf(idx, term) == Ln(TotalDocuments) - Ln(DocumentFrequency(idx, term))

\* document.get_field("static_quality_score", default): document 0 has
\* the field (0.7), the other documents do not
GetField(d, default) == IF d = 0 THEN 700 ELSE default

\* __init__
BetterRankerNew == [_score |-> 0, _document_id |-> NoDocumentId]

\* Faulty variant: reset keeps the accumulated score.
ResetKeepsScore(r, document_id) == [r EXCEPT !._document_id = document_id]

\* reset
BetterRankerReset(r, document_id) == [_score |-> 0, _document_id |-> document_id]

\* Faulty variant: the assertion of update is left out.
AssertionSkipped(r, posting) == TRUE

\* update: assert self._document_id == posting.document_id
UpdateAssertion(r, posting) == r._document_id = posting.document_id

\* update, when nothing is raised (the multiplicity is not used)
BetterRankerUpdate(r, idx, term, multiplicity, posting) ==
    [r EXCEPT !._score = @ + posting.term_frequency * Idf(idx, term)]

\* evaluate, for a document the corpus holds
BetterRankerEvaluate(r) ==
    r._score + StaticScoreWeight * GetField(r._document_id, StaticScoreDefault)

\* The evaluator is not running.
EngineIdle ==
    /\ pc = "idle"
    /\ terms_count = <<>>
    /\ terms = <<>>
    /\ n = 0
    /\ iterators = <<>>
    /\ postings_map = <<>>
    /\ results = <<>>
    /\ sieve_size = 0
    /\ sieve = <<>>
    /\ yielded = <<>>
    /\ calls = <<>>
    /\ pulled = <<>>
    /\ doc_ids = <<>>

engineVars == <<pc, index, query, threshold, hit_count, terms_count, terms, n,
                iterators, postings_map, results, sieve_size, sieve, yielded,
                calls, pulled, doc_ids>>

(***************************************************************************)
(* A BetterRanker driven by any caller: any sequence of reset, update and  *)
(* evaluate calls, over an index in which "c" has no postings.             *)
(***************************************************************************)
RankerInit ==
    /\ EngineIdle
    /\ query = <<>>
    /\ threshold = <<>>
    /\ hit_count = 0
    /\ index \in Indexes(<<"b", "a">>)
    /\ ranker = BetterRankerNew
    /\ call = <<>>
    /\ outcome = <<>>
    /\ was_reset = FALSE
    /\ runs = <<>>
    /\ BesidesRankerIdle

CallReset ==
    \E d \in Docs :
        /\ ranker' = BetterRankerReset(ranker, d)
        /\ call' = <<"reset", d>>
        /\ outcome' = <<"returned">>
        /\ was_reset' = TRUE
        /\ UNCHANGED <<engineVars, runs, besidesRanker>>

CallUpdate ==
    \E term \in Vocabulary, multiplicity \in 1 .. 2, d \in Docs :
        LET posting == Posting(term, d)
        IN  /\ ranker._score <= MaxRankerScore
            /\ call' = <<"update", term, multiplicity, posting>>
            /\ IF ~UpdateAssertion(ranker, posting)
               THEN outcome' = <<"AssertionError">> /\ ranker' = ranker
               ELSE IF DocumentFrequency(index, term) = 0
               THEN outcome' = <<"ZeroDivisionError">> /\ ranker' = ranker
               ELSE /\ outcome' = <<"returned">>
                    /\ ranker' = BetterRankerUpdate(ranker, index, term,
                                                    multiplicity, posting)
            /\ UNCHANGED <<engineVars, was_reset, runs, besidesRanker>>

\* evaluate asks the corpus for the document self._document_id; the corpus
\* (not in src/) fails for an id it does not hold, None included.
CallEvaluate ==
    /\ call' = <<"evaluate">>
    /\ IF ranker._document_id \in Docs
       THEN outcome' = <<"returned", BetterRankerEvaluate(ranker)>>
       ELSE outcome' = <<"raised">>
    /\ UNCHANGED <<engineVars, ranker, was_reset, runs, besidesRanker>>

RankerNext == CallReset \/ CallUpdate \/ CallEvaluate

RankerSpec == RankerInit /\ [][RankerNext]_vars

(***************************************************************************)
(* C19: a violation of the ranker protocol is fatal on BetterRanker.  An   *)
(* update with a posting whose document id is not the id of the most       *)
(* recent reset (or before any reset) raises AssertionError and leaves     *)
(* _score and _document_id as they were; evaluate before any reset raises  *)
(* instead of returning a score.                                           *)
(***************************************************************************)
C19_ProtocolViolationsFail ==
    /\ [][(call' # <<>> /\ call'[1] = "update"
            /\ call'[4].document_id # ranker._document_id) =>
            (outcome' = <<"AssertionError">> /\ ranker' = ranker)]_vars
    /\ []((call = <<"evaluate">> /\ ~was_reset) => outcome[1] # "returned")
    /\ [](~was_reset => ranker = BetterRankerNew)

\* after a reset and an update that added to the score, an update with a
\* posting of another document has failed
C19_Witness ==
    /\ was_reset
    /\ ranker._score > 0
    /\ call # <<>>
    /\ call[1] = "update"
    /\ call[4].document_id # ranker._document_id
    /\ outcome = <<"AssertionError">>

(***************************************************************************)
(* SimpleSearchEngine.evaluate run to its end with a BetterRanker as the   *)
(* ranker, as a function of the ranker it is given: the same lines as the  *)
(* actions Start, MergeStep and YieldWinners, with the score of a          *)
(* candidate computed by the ranker.                                       *)
(***************************************************************************)
\* Lines 63-67 on a BetterRanker: reset, then the updates in order.
RECURSIVE ApplyUpdates(_, _, _)
ApplyUpdates(r, idx, ups) ==
    IF ups = <<>> THEN r
    ELSE IF ~UpdateAssertion(r, Head(ups)[4])
            \/ DocumentFrequency(idx, Head(ups)[2]) = 0
    THEN [_score |-> r._score, _document_id |-> r._document_id, raised |-> TRUE]
    ELSE ApplyUpdates(BetterRankerUpdate(r, idx, Head(ups)[2], Head(ups)[3],
                                         Head(ups)[4]),
                      idx, Tail(ups))

Raised(r) == "raised" \in DOMAIN r

\* Lines 57-70, to the end of the loop: the results and the ranker it leaves.
RECURSIVE MergeLoop(_, _, _, _, _, _, _, _)
MergeLoop(r, idx, ts, counts, nn, pm, its, rs) ==
    IF ~AnyLive(pm) \/ Raised(r) THEN [results |-> rs, ranker |-> r]
    ELSE LET doc_id == MinDocId(pm)
             lists == [i \in 1 .. Len(ts) |-> PostingList(idx, ts[i])]
             scored == IsCandidate(DocMatchCount(pm, doc_id), nn)
             r2 == IF scored
                   THEN ApplyUpdates(BetterRankerReset(r, doc_id), idx,
                                     UpdateCalls(ts, counts, pm, doc_id))
                   ELSE r
             rs2 == IF scored /\ ~Raised(r2)
                    THEN Append(rs, <<BetterRankerEvaluate(r2), doc_id>>)
                    ELSE rs
         IN  MergeLoop(r2, idx, ts, counts, nn,
                       [i \in 1 .. Len(ts) |->
                          IF Advances(pm[i], doc_id)
                          THEN AdvanceCursor(lists[i], its[i]) ELSE pm[i]],
                       [i \in 1 .. Len(ts) |->
                          IF Advances(pm[i], doc_id)
                          THEN NextPos(lists[i], its[i]) ELSE its[i]],
                       rs2)

\* The sieve is a fresh object in every run and works on nothing but the
\* pairs sifted into it: what it hands back is a function of its capacity
\* and of those pairs, whichever way it breaks ties.
SieveOutcome(size, rs) ==
    CHOOSE w \in UNION {SieveWinners(heap) : heap \in SiftAll({<<>>}, size, rs)} :
        TRUE

\* Lines 45-79 with the ranker r: what is yielded, and the ranker left.
EvaluateWith(r, q, idx, num, hits) ==
    LET ts == UniqueTerms(q)
        lists == [i \in 1 .. Len(ts) |-> PostingList(idx, ts[i])]
        merged == MergeLoop(r, idx, ts, TermsCount(q), ComputeN(num, Len(ts)),
                            [i \in 1 .. Len(ts) |-> NextPosting(lists[i], 0)],
                            [i \in 1 .. Len(ts) |-> NextPos(lists[i], 0)],
                            <<>>)
        w == SieveOutcome(SieveSize(hits), SiftInput(merged.results))
    IN  [yielded |-> [i \in 1 .. Len(w) |-> Result(w[i][1], w[i][2])],
         raised |-> Raised(merged.ranker),
         ranker |-> merged.ranker]

(***************************************************************************)
(* The same query evaluated twice, one run after the other, with the same  *)
(* index, options and BetterRanker.                                        *)
(***************************************************************************)
RerunInit ==
    /\ EngineIdle
    /\ query \in Queries
    /\ index \in Indexes(query)
    /\ threshold \in Thresholds \ {<<>>}
    /\ hit_count \in {HitCountOf(opt) : opt \in HitCounts}
    /\ ranker = BetterRankerNew
    /\ call = <<>>
    /\ outcome = <<>>
    /\ was_reset = FALSE
    /\ runs = <<>>
    /\ BesidesRankerIdle

Run ==
    /\ Len(runs) < 2
    /\ LET out == EvaluateWith(ranker, query, index, threshold[1], hit_count)
       IN  /\ runs' = Append(runs, [yielded |-> out.yielded, raised |-> out.raised])
           /\ ranker' = [_score |-> out.ranker._score,
                         _document_id |-> out.ranker._document_id]
           /\ was_reset' = (was_reset \/ out.ranker._document_id # NoDocumentId)
    /\ UNCHANGED <<engineVars, call, outcome, besidesRanker>>

RerunNext == Run

RerunSpec == RerunInit /\ [][RerunNext]_vars

(***************************************************************************)
(* C13: evaluate run twice with the same query, index, options and         *)
(* BetterRanker yields the same results with the same scores in the same   *)
(* order: what the first run leaves in the ranker does not reach the       *)
(* second.                                                                 *)
(***************************************************************************)
C13_RerunIsIdentical ==
    Len(runs) = 2 =>
        /\ runs[1].yielded = runs[2].yielded
        /\ ~runs[1].raised
        /\ ~runs[2].raised

\* both runs are over; they yielded two results with different scores, and
\* the first run left a score in the ranker
C13_Witness ==
    /\ Len(runs) = 2
    /\ Len(runs[1].yielded) = 2
    /\ runs[1].yielded[1].score > runs[1].yielded[2].score
    /\ runs[1].yielded[2].score > 0
    /\ ranker._score > 0

(***************************************************************************)
(* SparseDocumentVector (src/in3120/sparsedocumentvector.py).              *)
(*                                                                         *)
(* Lengths are square roots and normalize divides by them, so weights are  *)
(* held exactly as a sign and a square: the entry [term, sign, sq] of a    *)
(* vector with denominator den has the weight sign * sqrt(sq / den).  A    *)
(* length is held as the fraction <<a, b>> of its square: sqrt(a / b).     *)
(* _values is a dict: a sequence of entries in insertion order, one per    *)
(* term.                                                                   *)
(***************************************************************************)
\* the weights given to __init__ and __setitem__ are -1 .. MaxWeight
MaxWeight == 2
\* the dictionary given to __init__ has at most MaxInitTerms terms
MaxInitTerms == 2
\* calls are made while squares and denominators are at most MaxSquare
MaxSquare == 12

\* the terms of the vector space
VectorTerms == {"a", "b"}
Weights == -1 .. MaxWeight
Factors == {-1, 0, 2}
Counts == -1 .. 2

Sgn(x) == IF x > 0 THEN 1 ELSE IF x < 0 THEN -1 ELSE 0

RECURSIVE GCD(_, _)
GCD(x, y) == IF y = 0 THEN x ELSE GCD(y, x % y)

RECURSIVE SumSq(_)
SumSq(values) == IF values = <<>> THEN 0 ELSE Head(values).sq + SumSq(Tail(values))

RECURSIVE GCDSq(_, _)
GCDSq(values, g) ==
    IF values = <<>> THEN g ELSE GCDSq(Tail(values), GCD(Head(values).sq, g))

\* the same weights and length, in lowest terms
Lowest(v) ==
    LET g == GCDSq(v._values, v.den)
    IN  [_values |-> [i \in 1 .. Len(v._values) |->
                        [v._values[i] EXCEPT !.sq = @ \div g]],
         den |-> v.den \div g,
         _length |-> IF v._length = <<>> THEN <<>>
                     ELSE <<v._length[1] \div GCD(v._length[1], v._length[2]),
                            v._length[2] \div GCD(v._length[1], v._length[2])>>]

\* the entry of a term with the weight w, w an integer
Entry(term, w, den) == [term |-> term, sign |-> Sgn(w), sq |-> w * w * den]

Holds(values, term) == \E i \in 1 .. Len(values) : values[i].term = term

\* d[term] = weight on a dict: a present key keeps its place
DictSet(values, entry) ==
    IF Holds(values, entry.term)
    THEN [i \in 1 .. Len(values) |->
            IF values[i].term = entry.term THEN entry ELSE values[i]]
    ELSE Append(values, entry)

\* The dictionaries given to __init__: distinct terms, any weights.
Dictionaries ==
    {d \in UNION {[1 .. k -> VectorTerms \X Weights] : k \in 0 .. MaxInitTerms} :
        \A i, j \in 1 .. Len(d) : i # j => d[i][1] # d[j][1]}

\* __init__: self._values = dict(values); self._length = None
VectorNew(d) ==
    [_values |-> [i \in 1 .. Len(d) |-> Entry(d[i][1], d[i][2], 1)],
     den |-> 1,
     _length |-> <<>>]

\* Faulty variant: __setitem__ leaves the cached length.
SetItemKeepsLength(v, term, w) ==
    [v EXCEPT !._values = DictSet(@, Entry(term, w, v.den))]

\* __setitem__
VectorSetItem(v, term, w) ==
    [v EXCEPT !._values = DictSet(@, Entry(term, w, v.den)), !._length = <<>>]

\* sqrt(sum(weight ** 2 for weight in self._values.values()))
ComputedLength(v) == <<SumSq(v._values), v.den>>

\* get_length: the vector it leaves; it returns the _length of that vector
VectorGetLength(v) ==
    IF v._length = <<>> THEN [v EXCEPT !._length = ComputedLength(v)] ELSE v

\* normalize: every weight is divided by the length get_length returned
VectorNormalize(v) ==
    LET g == VectorGetLength(v)
        lenght == g._length
    IN  IF lenght[1] > 0
        THEN [_values |-> [i \in 1 .. Len(g._values) |->
                             [g._values[i] EXCEPT !.sq = @ * lenght[2]]],
              den |-> g.den * lenght[1],
              _length |-> <<1, 1>>]
        ELSE [g EXCEPT !._length = <<0, 1>>]

\* the key sorted() orders the items by: the weight (the weights of a
\* vector have the same denominator)
Weight(entry) == entry.sign * entry.sq

\* sorted(items, key = weight, reverse = True): a stable sort, items of
\* equal weight keep their order
RECURSIVE SortedByWeight(_)
SortedByWeight(values) ==
    IF values = <<>> THEN <<>>
    ELSE LET i == CHOOSE k \in 1 .. Len(values) :
                    /\ \A j \in 1 .. Len(values) : Weight(values[j]) <= Weight(values[k])
                    /\ \A j \in 1 .. k - 1 : Weight(values[j]) < Weight(values[k])
         IN  <<values[i]>> \o
             SortedByWeight(SubSeq(values, 1, i - 1) \o SubSeq(values, i + 1, Len(values)))

\* Faulty variant: top takes the first count items as the dictionary
\* lists them, without sorting.
TopUnsorted(v, count) == SubSeq(v._values, 1, Min(count, Len(v._values)))

\* top, for count >= 0: sorted(...)[:count]
VectorTop(v, count) == SubSeq(SortedByWeight(v._values), 1, Min(count, Len(v._values)))

\* truncate, for count >= 0
VectorTruncate(v, count) ==
    [v EXCEPT !._values = VectorTop(v, count), !._length = <<>>]

\* scale, for an integer factor
VectorScale(v, factor) ==
    [_values |-> [i \in 1 .. Len(v._values) |->
                    [term |-> v._values[i].term,
                     sign |-> v._values[i].sign * Sgn(factor),
                     sq |-> v._values[i].sq * factor * factor]],
     den |-> v.den,
     _length |-> <<>>]

Small(v) ==
    /\ v.den <= MaxSquare
    /\ \A i \in 1 .. Len(v._values) : v._values[i].sq <= MaxSquare

(***************************************************************************)
(* A SparseDocumentVector made from any dictionary and then used by any    *)
(* caller.                                                                 *)
(***************************************************************************)
VectorInit ==
    /\ EngineIdle
    /\ query = <<>>
    /\ index = [term \in Vocabulary |-> {}]
    /\ threshold = <<>>
    /\ hit_count = 0
    /\ BesidesVectorIdle
    /\ \E d \in Dictionaries : vector = VectorNew(d)
    /\ vector_call = <<"__init__">>

SetItem ==
    \E term \in VectorTerms, w \in Weights :
        /\ Small(Lowest(VectorSetItem(vector, term, w)))
        /\ vector' = Lowest(VectorSetItem(vector, term, w))
        /\ vector_call' = <<"__setitem__">>
        /\ UNCHANGED <<engineVars, besidesVector>>

GetLength ==
    /\ vector' = Lowest(VectorGetLength(vector))
    /\ vector_call' = <<"get_length", Lowest(VectorGetLength(vector))._length>>
    /\ UNCHANGED <<engineVars, besidesVector>>

Normalize ==
    /\ Small(Lowest(VectorNormalize(vector)))
    /\ vector' = Lowest(VectorNormalize(vector))
    /\ vector_call' = <<"normalize">>
    /\ UNCHANGED <<engineVars, besidesVector>>

Scale ==
    \E factor \in Factors :
        /\ Small(Lowest(VectorScale(vector, factor)))
        /\ vector' = Lowest(VectorScale(vector, factor))
        /\ vector_call' = <<"scale">>
        /\ UNCHANGED <<engineVars, besidesVector>>

\* top: assert count >= 0, then the items it returns; no field is
\* assigned
Top ==
    \E count \in Counts :
        /\ vector' = vector
        /\ vector_call' = IF count >= 0
                          THEN <<"top", count, VectorTop(vector, count)>>
                          ELSE <<"AssertionError", "top", count>>
        /\ UNCHANGED <<engineVars, besidesVector>>

\* assert count >= 0
Truncate ==
    \E count \in Counts :
        /\ IF count >= 0
           THEN /\ vector' = Lowest(VectorTruncate(vector, count))
                /\ vector_call' = <<"truncate", count>>
           ELSE /\ vector' = vector
                /\ vector_call' = <<"AssertionError", "truncate", count>>
        /\ UNCHANGED <<engineVars, besidesVector>>

VectorNext == SetItem \/ GetLength \/ Normalize \/ Scale \/ Top \/ Truncate

VectorSpec == VectorInit /\ [][VectorNext]_vars

(***************************************************************************)
(* What the claims on the vector speak of.                                 *)
(***************************************************************************)
\* the terms the vector lists
StoredTerms == {vector._values[i].term : i \in 1 .. Len(vector._values)}

\* the weight of an entry is zero
IsZero(entry) == entry.sign = 0 \/ entry.sq = 0

\* the square of the Euclidean norm of the weights, as a fraction
RECURSIVE SquaresFrom(_)
SquaresFrom(i) ==
    IF i > Len(vector._values) THEN 0
    ELSE vector._values[i].sq + SquaresFrom(i + 1)

NormSquared == <<SquaresFrom(1), vector.den>>

\* two fractions are the same number
SameFraction(x, y) == x[1] * y[2] = y[1] * x[2]

(***************************************************************************)
(* C15 (as claimed): a SparseDocumentVector lists only dimensions with a   *)
(* non-zero value: after construction from any dictionary and after any    *)
(* __setitem__, scale, normalize and truncate, every stored term has a     *)
(* non-zero weight.                                                        *)
(***************************************************************************)
C15_OnlyNonZeroStored ==
    \A i \in 1 .. Len(vector._values) : ~IsZero(vector._values[i])

(***************************************************************************)
(* C20: the cached length is never stale.  _length is None or the          *)
(* Euclidean norm of the weights as they are; get_length returns that      *)
(* norm and normalize leaves a vector of norm 1, or the zero vector with   *)
(* the length 0.                                                           *)
(***************************************************************************)
C20_CachedLengthIsTheNorm ==
    /\ vector._length # <<>> => SameFraction(vector._length, NormSquared)
    /\ vector_call[1] = "get_length" =>
         /\ SameFraction(vector_call[2], NormSquared)
         /\ vector._length = vector_call[2]
    /\ vector_call[1] = "normalize" =>
         /\ vector._length # <<>>
         /\ SameFraction(vector._length,
                         IF \A i \in 1 .. Len(vector._values) : IsZero(vector._values[i])
                         THEN <<0, 1>> ELSE <<1, 1>>)

\* get_length has returned 1 for a vector of two different non-zero
\* weights that was normalized
C20_Witness ==
    /\ vector_call = <<"get_length", <<1, 1>>>>
    /\ Len(vector._values) = 2
    /\ vector._values[1].sq # vector._values[2].sq
    /\ ~IsZero(vector._values[1])
    /\ ~IsZero(vector._values[2])

(***************************************************************************)
(* StringFinder.scan (src/in3120/stringfinder.py).                         *)
(*                                                                         *)
(* A string is a sequence of characters.  The trie, the tokenizer and the  *)
(* normalizer are not in src/: the trie holds a dictionary of strings (a   *)
(* node is the string that leads to it from the root), the tokenizer cuts  *)
(* the buffer at its spaces, the normalizer lowers the case.               *)
(***************************************************************************)
\* a buffer has at most MaxTokens tokens
MaxTokens == 3
\* a dictionary entry has at most MaxEntryTokens tokens
MaxEntryTokens == 2
\* the trie holds at most MaxEntries entries
MaxEntries == 2

Space == <<" ">>

\* the tokens a buffer is made of, and those a dictionary entry is made of
BufferTokens == {<<"a">>, <<"b">>, <<"a", "b">>, <<"A">>}
EntryTokens == {<<"a">>, <<"b">>, <<"a", "b">>}

\* Normalizer.normalize
NormalizeChar(c) == IF c = "A" THEN "a" ELSE c
NormalizeToken(token) == [i \in 1 .. Len(token) |-> NormalizeChar(token[i])]

\* " ".join(strings)
RECURSIVE JoinWithSpace(_)
JoinWithSpace(strings) ==
    IF strings = <<>> THEN <<>>
    ELSE IF Len(strings) = 1 THEN strings[1]
    ELSE strings[1] \o Space \o JoinWithSpace(Tail(strings))

\* The buffers: tokens with one space between them.
Buffers == UNION {[1 .. k -> BufferTokens] : k \in 0 .. MaxTokens}

\* Tokenizer.tokens: the span (start, end) of the i-th token of the buffer
RECURSIVE TokenStart(_, _)
TokenStart(tokens, i) ==
    IF i = 1 THEN 0 ELSE TokenStart(tokens, i - 1) + Len(tokens[i - 1]) + 1
TokenEnd(tokens, i) == TokenStart(tokens, i) + Len(tokens[i])

\* The strings a trie is built from: normalized tokens joined by one space.
Entries ==
    {JoinWithSpace(e) : e \in UNION {[1 .. k -> EntryTokens] : k \in 1 .. MaxEntryTokens}}

Tries == {dictionary \in SUBSET Entries : Cardinality(dictionary) <= MaxEntries}

\* Trie.consume(prefix) from the node `node`: the node reached, in a
\* one-element sequence, or <<>> for None
TrieConsume(dictionary, node, prefix) ==
    IF \E e \in dictionary : IsPrefix(node \o prefix, e)
    THEN <<node \o prefix>> ELSE <<>>

\* Trie.is_final
IsFinal(dictionary, node) == node \in dictionary

\* Faulty variant: __consume stays in the state when the trie can take
\* the token neither way.
ConsumeKeepsState(dictionary, state, token, consumed) ==
    LET direct == TrieConsume(dictionary, state, token)
        spaced == TrieConsume(dictionary, state, Space \o token)
    IN  IF direct # <<>>
        THEN [next_node |-> direct, consumed |-> consumed \o token]
        ELSE IF spaced # <<>>
        THEN [next_node |-> spaced, consumed |-> consumed \o Space \o token]
        ELSE [next_node |-> <<state>>, consumed |-> consumed]

\* Lines 47-57, __consume: the token as it is first, then with a space
\* before it.
Consume(dictionary, state, token, consumed) ==
    LET direct == TrieConsume(dictionary, state, token)
        spaced == TrieConsume(dictionary, state, Space \o token)
    IN  IF direct # <<>>
        THEN [next_node |-> direct, consumed |-> consumed \o token]
        ELSE IF spaced # <<>>
        THEN [next_node |-> spaced, consumed |-> consumed \o Space \o token]
        ELSE [next_node |-> <<>>, consumed |-> consumed]

\* Lines 74-80 and 89-95: a match (the meta data are left out)
Match(tokens, first, last, consumed) ==
    [match |-> consumed,
     surface |-> JoinWithSpace(SubSeq(tokens, first, last)),
     span |-> <<TokenStart(tokens, first), TokenEnd(tokens, last)>>]

\* Lines 66-80 for one live state, lines 83-95 for the start at the root:
\* the live state and the match it gives, each in a sequence of at most
\* one element.  A live state is (node, index of its first token, consumed).
Advance(dictionary, tokens, i, state) ==
    LET c == Consume(dictionary, state[1], NormalizeToken(tokens[i]), state[3])
    IN  IF c.next_node = <<>> THEN [live |-> <<>>, found |-> <<>>]
        ELSE [live |-> << <<c.next_node[1], state[2], c.consumed>> >>,
              found |-> IF IsFinal(dictionary, c.next_node[1])
                        THEN <<Match(tokens, state[2], i, c.consumed)>>
                        ELSE <<>>]

\* Lines 60-98 for the i-th token: new_live_states and matches
ScanStep(dictionary, tokens, i, live_states) ==
    LET old == [k \in 1 .. Len(live_states) |->
                  Advance(dictionary, tokens, i, live_states[k])]
        new == Advance(dictionary, tokens, i, <<<<>>, i, <<>>>>)
    IN  [live_states |-> Concat([k \in 1 .. Len(old) |-> old[k].live]) \o new.live,
         matches |-> Concat([k \in 1 .. Len(old) |-> old[k].found]) \o new.found]

(***************************************************************************)
(* One run of scan over any buffer with any trie: an action per token.     *)
(***************************************************************************)
FinderInit ==
    /\ EngineIdle
    /\ query = <<>>
    /\ index = [term \in Vocabulary |-> {}]
    /\ threshold = <<>>
    /\ hit_count = 0
    /\ BesidesFinderIdle
    /\ \E dictionary \in Tries, tokens \in Buffers :
         finder = [trie |-> dictionary, tokens |-> tokens, i |-> 1,
                   live_states |-> <<>>]
    /\ matches = <<>>

ScanToken ==
    /\ finder # <<>>
    /\ finder.i <= Len(finder.tokens)
    /\ LET step == ScanStep(finder.trie, finder.tokens, finder.i, finder.live_states)
       IN  /\ finder' = [finder EXCEPT !.i = @ + 1,
                                       !.live_states = step.live_states]
           /\ matches' = matches \o step.matches
    /\ UNCHANGED <<engineVars, besidesFinder>>

FinderNext == ScanToken

FinderSpec == FinderInit /\ [][FinderNext]_vars

(***************************************************************************)
(* What the claims on scan speak of.                                       *)
(***************************************************************************)
ScanDone == finder.i > Len(finder.tokens)

\* the string the tokens first..last of the buffer make: their normalized
\* forms with one space between them
RunString(first, last) ==
    JoinWithSpace([k \in 1 .. last - first + 1 |->
                     NormalizeToken(finder.tokens[first + k - 1])])

Yielded(string, first, last) ==
    \E k \in 1 .. Len(matches) :
        /\ matches[k].match = string
        /\ matches[k].span = <<TokenStart(finder.tokens, first),
                               TokenEnd(finder.tokens, last)>>

(***************************************************************************)
(* C14 (as claimed): scan yields every entry of the trie that is in the    *)
(* buffer on token boundaries: for every run of consecutive tokens whose   *)
(* normalized forms, joined by single spaces, are a string stored in the   *)
(* trie, a match with that string and the span from the start of the       *)
(* first token to the end of the last is yielded, whatever else the trie   *)
(* holds.                                                                  *)
(***************************************************************************)
C14_EveryEntryIsFound ==
    ScanDone =>
        \A first \in 1 .. Len(finder.tokens) :
            \A last \in first .. Len(finder.tokens) :
                RunString(first, last) \in finder.trie =>
                    Yielded(RunString(first, last), first, last)

(***************************************************************************)
(* NaiveBayesClassifier (src/in3120/naivebayesclassifier.py).              *)
(*                                                                         *)
(* A document is the sequence of the terms of its field, a corpus a        *)
(* sequence of documents, a training set a sequence of (category, corpus)  *)
(* in the order of the dict.  Log-probabilities are in thousandths.  The   *)
(* tokenizer, the normalizer and the dictionary are not in src/: a buffer  *)
(* is its tokens, the normalizer lowers the case, the dictionary numbers   *)
(* the terms in the order they are added.                                  *)
(***************************************************************************)
\* a corpus of the training set has 1 .. MaxTrainDocs documents
MaxTrainDocs == 2
\* a buffer to classify has at most MaxBufferTerms tokens
MaxBufferTerms == 3

Categories == <<"x", "y">>
TrainingDocuments == {<<"a">>, <<"a", "b">>, <<"b", "b">>}
Corpora == UNION {[1 .. k -> TrainingDocuments] : k \in 1 .. MaxTrainDocs}

\* one category, or two
TrainingSets ==
    {<< <<Categories[1], corpus>> >> : corpus \in Corpora}
    \cup {<< <<Categories[1], c1>>, <<Categories[2], c2>> >> : c1 \in Corpora, c2 \in Corpora}

\* the tokens of the buffers to classify; "z" is in no training document
ClassifyBuffers == UNION {[1 .. k -> {"a", "b", "z", "A"}] : k \in 0 .. MaxBufferTerms}

\* __get_terms: the normalized tokens, in order
NormalizeTerm(t) == IF t = "A" THEN "a" ELSE t
GetTerms(buffer) == [i \in 1 .. Len(buffer) |-> NormalizeTerm(buffer[i])]

\* the terms of all the documents of a corpus, in order
TermsOf(corpus) == Concat([i \in 1 .. Len(corpus) |-> GetTerms(corpus[i])])

\* Lines 55-57: log(len(docs) / total_docs) per category
TotalDocs(training_set) ==
    Len(Concat([i \in 1 .. Len(training_set) |-> training_set[i][2]]))

ComputePriors(training_set) ==
    [i \in 1 .. Len(training_set) |->
        [category |-> training_set[i][1],
         prior |-> Ln(Len(training_set[i][2])) - Ln(TotalDocs(training_set))]]

\* Lines 67-75: the terms in the order add_if_absent meets them; the id
\* of a term is its place
ComputeVocabulary(training_set) ==
    FirstOccurrences(
        Concat([i \in 1 .. Len(training_set) |-> TermsOf(training_set[i][2])]), {})

\* Lines 97-98: sum(term_counts.values()) + self.__vocabulary.size()
ComputeDenominator(corpus, vocabulary) == Len(TermsOf(corpus)) + Len(vocabulary)

\* Lines 100-105: log((term_count + 1) / denominator) per term id
ComputeConditionals(corpus, vocabulary) ==
    [term_id \in 1 .. Len(vocabulary) |->
        Ln(Occurrences(TermsOf(corpus), vocabulary[term_id]) + 1)
            - Ln(ComputeDenominator(corpus, vocabulary))]

\* __init__
Train(training_set) ==
    LET vocabulary == ComputeVocabulary(training_set)
    IN  [training_set |-> training_set,
         vocabulary |-> vocabulary,
         priors |-> ComputePriors(training_set),
         conditionals |-> [i \in 1 .. Len(training_set) |->
                             ComputeConditionals(training_set[i][2], vocabulary)],
         denominators |-> [i \in 1 .. Len(training_set) |->
                             ComputeDenominator(training_set[i][2], vocabulary)]]

\* InMemoryDictionary.get_term_id: 0 stands for None
GetTermId(vocabulary, term) ==
    IF \E i \in 1 .. Len(vocabulary) : vocabulary[i] = term
    THEN CHOOSE i \in 1 .. Len(vocabulary) : vocabulary[i] = term
    ELSE 0

\* get_posterior, for the i-th category
GetPosterior(c, i, term) ==
    LET term_id == GetTermId(c.vocabulary, term)
    IN  IF term_id # 0 THEN c.conditionals[i][term_id] ELSE 0

\* Faulty variant: the terms of the buffer, each taken once.
ObservedOnce(c, buffer) ==
    FirstOccurrences(
        SelectSeq(GetTerms(buffer), LAMBDA t : GetTermId(c.vocabulary, t) # 0), {})

\* Line 161: the terms of the buffer that are in the vocabulary
ObservedTerms(c, buffer) ==
    SelectSeq(GetTerms(buffer), LAMBDA t : GetTermId(c.vocabulary, t) # 0)

RECURSIVE SumPosteriors(_, _, _)
SumPosteriors(c, i, observed) ==
    IF observed = <<>> THEN 0
    ELSE GetPosterior(c, i, Head(observed)) + SumPosteriors(c, i, Tail(observed))

\* Lines 166-170: the scores, in the order of the priors
Scored(c, buffer) ==
    [i \in 1 .. Len(c.priors) |->
        [score |-> c.priors[i].prior + SumPosteriors(c, i, ObservedTerms(c, buffer)),
         category |-> c.priors[i].category]]

\* Line 173: scores.sort(key = score, reverse = True), a stable sort
RECURSIVE SortedByScore(_)
SortedByScore(scores) ==
    IF scores = <<>> THEN <<>>
    ELSE LET i == CHOOSE k \in 1 .. Len(scores) :
                    /\ \A j \in 1 .. Len(scores) : scores[j].score <= scores[k].score
                    /\ \A j \in 1 .. k - 1 : scores[j].score < scores[k].score
         IN  <<scores[i]>> \o
             SortedByScore(SubSeq(scores, 1, i - 1) \o SubSeq(scores, i + 1, Len(scores)))

\* classify: the results yielded, in order
Classify(c, buffer) == SortedByScore(Scored(c, buffer))

(***************************************************************************)
(* A classifier trained from any training set, then asked to classify any  *)
(* buffers.                                                                *)
(***************************************************************************)
BayesInit ==
    /\ EngineIdle
    /\ query = <<>>
    /\ index = [term \in Vocabulary |-> {}]
    /\ threshold = <<>>
    /\ hit_count = 0
    /\ BesidesBayesIdle
    /\ \E training_set \in TrainingSets : classifier = Train(training_set)
    /\ classified = <<>>

ClassifyBuffer ==
    /\ classifier # <<>>
    /\ \E buffer \in ClassifyBuffers :
         classified' = [buffer |-> buffer, results |-> Classify(classifier, buffer)]
    /\ UNCHANGED <<engineVars, besidesBayes, classifier>>

BayesNext == ClassifyBuffer

BayesSpec == BayesInit /\ [][BayesNext]_vars

(***************************************************************************)
(* What the claims on the classifier speak of, told from the training set  *)
(* alone.                                                                  *)
(***************************************************************************)
TrainedOn == classifier.training_set
TrainedCategories == {TrainedOn[i][1] : i \in 1 .. Len(TrainedOn)}
CorpusOf(category) ==
    TrainedOn[CHOOSE i \in 1 .. Len(TrainedOn) : TrainedOn[i][1] = category][2]

\* the places (document, position) of the term occurrences of a corpus
Places(corpus) ==
    {<<d, k>> \in (1 .. Len(corpus)) \X (1 .. 2) : k <= Len(corpus[d])}

TrainingVocabulary ==
    UNION {{NormalizeTerm(CorpusOf(c)[p[1]][p[2]]) : p \in Places(CorpusOf(c))} :
             c \in TrainedCategories}

\* log Pr(c) and log Pr(t | c), with add-one smoothing
LogPrior(category) ==
    Ln(Len(CorpusOf(category)))
        - Ln(SumOver([c \in TrainedCategories |-> Len(CorpusOf(c))], TrainedCategories))

LogConditional(category, term) ==
    Ln(1 + Cardinality({p \in Places(CorpusOf(category)) :
                          NormalizeTerm(CorpusOf(category)[p[1]][p[2]]) = term}))
        - Ln(Cardinality(Places(CorpusOf(category))) + Cardinality(TrainingVocabulary))

\* the score of a category for a buffer: every occurrence of a term of the
\* training vocabulary adds its conditional, the other tokens add nothing
ExpectedScore(category, buffer) ==
    LET counted == {k \in 1 .. Len(buffer) :
                      NormalizeTerm(buffer[k]) \in TrainingVocabulary}
    IN  LogPrior(category)
            + SumOver([k \in counted |->
                         LogConditional(category, NormalizeTerm(buffer[k]))], counted)

(***************************************************************************)
(* C16: classify yields one result per trained category, in non-increasing *)
(* score order; the score of a category is its prior log-probability plus, *)
(* for every occurrence in the buffer of a term of the training vocabulary *)
(* (repeats counted), the term's conditional log-probability for the       *)
(* category; tokens outside the vocabulary change no score.                *)
(***************************************************************************)
C16_ClassifyScores ==
    classified # <<>> =>
        LET res == classified.results
        IN  /\ Len(res) = Cardinality(TrainedCategories)
            /\ {res[i].category : i \in 1 .. Len(res)} = TrainedCategories
            /\ \A i, j \in 1 .. Len(res) : i < j => res[i].score >= res[j].score
            /\ \A i \in 1 .. Len(res) :
                 res[i].score = ExpectedScore(res[i].category, classified.buffer)

\* two categories; the buffer holds a term of the vocabulary twice and a
\* token outside it; the category trained second comes first
C16_Witness ==
    /\ classified # <<>>
    /\ Len(classified.results) = 2
    /\ classified.results[1].category = "y"
    /\ classified.results[1].score > classified.results[2].score
    /\ Len(classified.buffer) = 3
    /\ classified.buffer[1] = classified.buffer[2]
    /\ classified.buffer[1] \in TrainingVocabulary
    /\ classified.buffer[3] \notin TrainingVocabulary


\* two entries are the same term with the same weight, each weight
\* over the denominator of its vector
SameWeight(e, eden, f, fden) ==
    /\ e.term = f.term
    /\ e.sign = f.sign
    /\ e.sq * fden = f.sq * eden

\* the items are those of min(count, size) different terms of the values,
\* as they are listed there, and no term left out weighs more than one
\* that is taken
TakesTheHeaviest(items, iden, values, vden, count) ==
    /\ Len(items) = Min(count, Len(values))
    /\ \A j, k \in 1 .. Len(items) : j # k => items[j].term # items[k].term
    /\ \A j \in 1 .. Len(items) :
         \E i \in 1 .. Len(values) : SameWeight(values[i], vden, items[j], iden)
    /\ \A i, r \in 1 .. Len(values) :
         /\ Holds(items, values[i].term)
         /\ ~Holds(items, values[r].term)
         => Weight(values[r]) <= Weight(values[i])

(***************************************************************************)
(* C21: for count >= 0, truncate(count) leaves min(count, previous size)   *)
(* terms, each with the weight it had, and no removed term weighs more     *)
(* than a retained one.  top(count) returns those same terms by            *)
(* non-increasing weight and leaves the vector as it was.  A second        *)
(* truncate(count) changes nothing.                                        *)
(***************************************************************************)
C21_TruncateKeepsTheTop ==
    [][/\ vector_call'[1] = "truncate" =>
            TakesTheHeaviest(vector'._values, vector'.den,
                             vector._values, vector.den, vector_call'[2])
       /\ vector_call'[1] = "top" =>
            /\ vector' = vector
            /\ TakesTheHeaviest(vector_call'[3], vector.den,
                                vector._values, vector.den, vector_call'[2])
            /\ \A j \in 1 .. Len(vector_call'[3]) - 1 :
                 Weight(vector_call'[3][j]) >= Weight(vector_call'[3][j + 1])
       /\ (/\ vector_call[1] = "top"
           /\ vector_call'[1] = "truncate"
           /\ vector_call'[2] = vector_call[2]) =>
            /\ Len(vector'._values) = Len(vector_call[3])
            /\ \A j \in 1 .. Len(vector_call[3]) :
                 SameWeight(vector_call[3][j], vector.den,
                            vector'._values[j], vector'.den)
       /\ (/\ vector_call[1] = "truncate"
           /\ vector_call'[1] = "truncate"
           /\ vector_call'[2] = vector_call[2]) =>
            vector' = vector
      ]_vars

\* truncate(1) has left the one term of weight 2/sqrt(5): the heavier term
\* of a normalized vector of the weights 1 and 2
C21_Witness ==
    /\ vector_call = <<"truncate", 1>>
    /\ Len(vector._values) = 1
    /\ vector._values[1].sign = 1
    /\ vector._values[1].sq = 4
    /\ vector.den = 5


\* the trie can go on from the node with the token, as it is or with a
\* space before it
CanConsume(node, token) ==
    \E e \in finder.trie :
        IsPrefix(node \o token, e) \/ IsPrefix(node \o Space \o token, e)

(***************************************************************************)
(* C22: every match scan yields begins and ends on token boundaries and    *)
(* names an entry of the dictionary: its span goes from the start of a     *)
(* token to the end of the same or a later token, its 'match' is a string  *)
(* stored as final in the trie, and the matches come in non-decreasing     *)
(* order of the end of their span.  A live state is dropped at the first   *)
(* token the trie cannot consume from it.                                  *)
(***************************************************************************)
C22_MatchesAreEntriesOnTokenBoundaries ==
    /\ [](\A k \in 1 .. Len(matches) :
            /\ \E first \in 1 .. Len(finder.tokens) :
                 \E last \in first .. Len(finder.tokens) :
                    matches[k].span = <<TokenStart(finder.tokens, first),
                                        TokenEnd(finder.tokens, last)>>
            /\ matches[k].match \in finder.trie
            /\ k < Len(matches) => matches[k].span[2] <= matches[k + 1].span[2])
    /\ [][finder.i <= Len(finder.tokens) =>
            \A m \in 1 .. Len(finder.live_states) :
                ~CanConsume(finder.live_states[m][1],
                            NormalizeToken(finder.tokens[finder.i]))
                => \A later \in 1 .. Len(finder'.live_states) :
                      finder'.live_states[later][2] # finder.live_states[m][2]
         ]_vars

\* the buffer "A b b" scanned with the entries "a b" and "b": "a b" and
\* "b" are found at the second token, the two live states are dropped at
\* the third, where "b" is found again
C22_Witness ==
    /\ finder.trie = {<<"a", " ", "b">>, <<"b">>}
    /\ finder.tokens = <<<<"A">>, <<"b">>, <<"b">>>>
    /\ finder.i = 4
    /\ Len(matches) = 3
    /\ matches[1].match = <<"a", " ", "b">>
    /\ matches[1].span = <<0, 3>>
    /\ matches[3].span = <<4, 5>>
    /\ Len(finder.live_states) = 1

====
